---- MODULE Spec2Model ----
(***************************************************************************)
(* LightwaveRF light platform (lightwave.py): the class-level command      *)
(* queue of LWLink, the threads that call send_message, the drain threads  *)
(* running _startSending, and the send/acknowledge/retry cycle of          *)
(* _send_reliable_message.                                                 *)
(*                                                                         *)
(* A command is identified by its enqueue number 1, 2, ... (the text of    *)
(* the message is opaque to the transport).  A thread object is            *)
(* identified by its creation number.                                      *)
(***************************************************************************)
EXTENDS Integers, Sequences, FiniteSets, TLC

\* Number of commands the callers enqueue in one run.
MaxCmds == 3
\* Number of threads that may call send_message at the same time, and the
\* number of commands they enqueue between them.
NumCallers == 2
MaxCmdsRace == 2
\* Unrelated datagrams (neither OK nor ERR) received in one call are counted
\* 0, 1, ..., MaxOther and then go round 1..MaxOther.
MaxOther == 2

\* The retry count one too small and one too large.
MaxRetriesShort == 15 - 1
MaxRetriesLong == 15 + 1

\* max_retries = 15
MaxRetries == 15

Cmds == 1..MaxCmds
Callers == 1..NumCallers
\* send_message creates at most one Thread per call, one call per command.
Threads == 1..MaxCmds

\* What one read_sock.recvfrom can end in: a datagram whose second field
\* starts with OK, one whose second field starts with ERR, one whose second
\* field starts with neither, a datagram without a comma, socket.timeout.
Replies == {"OK", "ERR", "OTHER", "NOCOMMA", "TIMEOUT"}
\* The replies of a hub that answers every datagram it gets with a
\* well-formed OK or ERR, or not at all.
PlainReplies == {"OK", "ERR", "TIMEOUT"}

VARIABLES
    the_queue,   \* LWLink.the_queue: the commands waiting, oldest first
    thread,      \* LWLink.thread: 0 for None, else a thread object
    created,     \* number of Thread objects constructed so far
    enqueued,    \* number of commands put so far
    cpc,         \* position of each caller inside send_message
    seen,        \* the thread object a caller read in the second operand
    worker,      \* per thread object: position and the locals of its call
    rx_port,     \* the thread whose read_sock is bound to RX_PORT, 0 if free
    wire,        \* commands in the order the hub saw them (runs collapsed)
    outcome,     \* per command: how its _send_reliable_message call ended
    link_ip,     \* LWLink.link_ip: the host datagrams are sent to
    enq_ip,      \* per command: LWLink.link_ip when the command was put
    dest,        \* per command: the host its latest datagram went to
    is_on,       \* per light: LRFLight._state ("None", "True", "False")
    brightness,  \* per light: LRFLight._brightness
    call,        \* the latest async_turn_on / async_turn_off call
    brightness_value,  \* async_turn_on: the local brightness_value
    msg          \* async_turn_on / async_turn_off: the local msg

\* The state of the lights and of the latest call on one.
lvars == <<is_on, brightness, call, brightness_value, msg>>
\* The hub address and where the datagrams went.
hvars == <<link_ip, enq_ip, dest>>

vars == <<the_queue, thread, created, enqueued, cpc, seen, worker, rx_port,
          wire, outcome, hvars, lvars>>

\* The device ids and names of the configured lights.
Lights == {"R1D1", "R1D2"}
DeviceName(e) == IF e = "R1D1" THEN "Kitchen" ELSE "Hall"

\* Hub addresses a platform entry may configure.
Hosts == {"192.168.1.10", "192.168.1.20"}

\* Brightness 0..255; a call of async_turn_on without ATTR_BRIGHTNESS.
MaxBrightness == 255
NoArg == 0 - 1
\* The brightness values callers pass while the transport runs.
Levels == {0, 128, MaxBrightness}

\* The frame of a thread that is not inside _send_reliable_message.
NoCall ==
    [msg |-> 0, max_retries |-> 0, result |-> FALSE,
     write_sock |-> FALSE, read_sock |-> FALSE,
     sends |-> 0, sleeps |-> 0, errs |-> 0, others |-> 0, windows |-> 0,
     last |-> "none", how |-> "none"]

NewThread == [pc |-> "new"] @@ NoCall

Init ==
    /\ the_queue = <<>>
    /\ thread = 0
    /\ created = 0
    /\ enqueued = 0
    /\ cpc = [c \in Callers |-> "idle"]
    /\ seen = [c \in Callers |-> 0]
    /\ worker = [t \in Threads |-> NewThread]
    /\ rx_port = 0
    /\ wire = <<>>
    /\ outcome = [m \in Cmds |-> "pending"]
    /\ link_ip = "192.168.1.10"
    /\ enq_ip = [m \in Cmds |-> ""]
    /\ dest = [m \in Cmds |-> ""]
    /\ is_on = [e \in Lights |-> "None"]
    /\ brightness = [e \in Lights |-> 255]
    /\ call = [light |-> "", op |-> "none", arg |-> NoArg]
    /\ brightness_value = NoArg
    /\ msg = <<>>

\* Thread.isAlive(): started and not yet terminated.
isAlive(t) == worker[t].pc \notin {"new", "dead"}

-----------------------------------------------------------------------------
(* send_message *)

\* LWLink.the_queue.put_nowait(msg)
Put(c, limit) ==
    /\ cpc[c] = "idle"
    /\ enqueued < limit
    /\ enqueued' = enqueued + 1
    /\ the_queue' = Append(the_queue, enqueued + 1)
    /\ cpc' = [cpc EXCEPT ![c] = "check"]
    /\ enq_ip' = [enq_ip EXCEPT ![enqueued + 1] = link_ip]
    /\ UNCHANGED <<thread, created, seen, worker, rx_port, wire, outcome,
                   link_ip, dest>>

\* if LWLink.thread == None or ...
CheckNone(c) ==
    /\ cpc[c] = "check"
    /\ IF thread = 0
         THEN /\ cpc' = [cpc EXCEPT ![c] = "create"]
              /\ seen' = seen
         ELSE /\ cpc' = [cpc EXCEPT ![c] = "alive"]
              /\ seen' = [seen EXCEPT ![c] = thread]
    /\ UNCHANGED <<the_queue, thread, created, enqueued, worker, rx_port,
                   wire, outcome>>
    /\ UNCHANGED <<hvars, lvars>>

\* ... or not self.thread.isAlive()
CheckAlive(c) ==
    /\ cpc[c] = "alive"
    /\ cpc' = [cpc EXCEPT ![c] = IF isAlive(seen[c]) THEN "idle" ELSE "create"]
    /\ seen' = [seen EXCEPT ![c] = 0]
    /\ UNCHANGED <<the_queue, thread, created, enqueued, worker, rx_port,
                   wire, outcome>>
    /\ UNCHANGED <<hvars, lvars>>

\* LWLink.thread = threading.Thread(target=self._startSending)
Create(c) ==
    /\ cpc[c] = "create"
    /\ created' = created + 1
    /\ thread' = created + 1
    /\ cpc' = [cpc EXCEPT ![c] = "start"]
    /\ UNCHANGED <<the_queue, enqueued, seen, worker, rx_port, wire, outcome>>
    /\ UNCHANGED <<hvars, lvars>>

\* LWLink.thread.start(): starts the thread LWLink.thread names now; a thread
\* that was started before raises RuntimeError in the caller.
Start(c) ==
    /\ cpc[c] = "start"
    /\ cpc' = [cpc EXCEPT ![c] = "idle"]
    /\ worker' = IF worker[thread].pc = "new"
                   THEN [worker EXCEPT ![thread].pc = "check"]
                   ELSE worker
    /\ UNCHANGED <<the_queue, thread, created, enqueued, seen, rx_port, wire,
                   outcome>>
    /\ UNCHANGED <<hvars, lvars>>

\* send_message called with a message whose text is left open.
Enqueue(c, limit) ==
    /\ Put(c, limit)
    /\ UNCHANGED lvars

\* LWLink.__init__(link_ip) with link_ip != None
Construct(h) ==
    /\ link_ip' = h
    /\ UNCHANGED <<the_queue, thread, created, enqueued, cpc, seen, worker,
                   rx_port, wire, outcome, enq_ip, dest, lvars>>

-----------------------------------------------------------------------------
(* calculate_brightness, LRFLight *)

\* round(n / d) of Python 3 for n >= 0, d > 0: to the nearest integer, a tie
\* to the even one.
Round(n, d) ==
    LET q == n \div d
        r == n % d
    IN  IF 2 * r < d THEN q
        ELSE IF 2 * r > d THEN q + 1
        ELSE IF q % 2 = 0 THEN q ELSE q + 1

\* The scaled value cut off instead of rounded.
calculate_brightness_floor(b) == (b * 32) \div 255

\* return round((brightness * 32) / 255)
calculate_brightness(b) == Round(b * 32, 255)

\* The % operator on a format string given as the sequence of its pieces
\* (sequence token, '!', conversions, function, texts): each %s and %d is
\* replaced by the next argument (%d: the decimal digits of the integer).
RECURSIVE Format(_, _)
Format(fmt, args) ==
    IF fmt = <<>> THEN <<>>
    ELSE IF Head(fmt) = "%s"
      THEN <<Head(args)>> \o Format(Tail(fmt), Tail(args))
    ELSE IF Head(fmt) = "%d"
      THEN <<ToString(Head(args))>> \o Format(Tail(fmt), Tail(args))
    ELSE <<Head(fmt)>> \o Format(Tail(fmt), args)

\* A turn-off sent as function F1.
TurnOffFormatF1 == <<"321,", "!", "%s", "F1", "|Turn Off|", "%s">>

\* '321,!%sFdP%d|Lights %d|%s'
DimFormat == <<"321,", "!", "%s", "FdP", "%d", "|Lights ", "%d", "|", "%s">>
\* '321,!%sFdP32|Turn On|%s'
TurnOnFormat == <<"321,", "!", "%s", "FdP", "32", "|Turn On|", "%s">>
\* "321,!%sF0|Turn Off|%s"
TurnOffFormat == <<"321,", "!", "%s", "F0", "|Turn Off|", "%s">>

\* The new _brightness of light e: turning off resets it to 0.
DimmedOff(e, b) == [brightness EXCEPT ![e] = IF b = NoArg THEN 0 ELSE b]

\* if ATTR_BRIGHTNESS in kwargs: self._brightness = kwargs[ATTR_BRIGHTNESS]
StoreBrightness(e, b) ==
    IF b = NoArg THEN brightness ELSE [brightness EXCEPT ![e] = b]

\* The state is left for the outcome of the command to set.
PendingState(e, on) == is_on

\* self._state = True / self._state = False
StoreState(e, on) == [is_on EXCEPT ![e] = IF on THEN "True" ELSE "False"]

\* async_turn_on(**kwargs) of light e, b the brightness given or NoArg, up
\* to the_queue.put_nowait(msg) inside send_message
TurnOn(c, e, b, limit) ==
    /\ is_on' = StoreState(e, TRUE)
    /\ brightness' = StoreBrightness(e, b)
    /\ call' = [light |-> e, op |-> "turn_on", arg |-> b]
    /\ brightness_value' = IF b = NoArg THEN NoArg ELSE calculate_brightness(b)
    /\ msg' = IF b = NoArg
                THEN Format(TurnOnFormat, <<e, DeviceName(e)>>)
                ELSE Format(DimFormat, <<e, calculate_brightness(b),
                                         calculate_brightness(b), DeviceName(e)>>)
    /\ Put(c, limit)

\* async_turn_off(**kwargs) of light e, up to the_queue.put_nowait(msg)
TurnOff(c, e, limit) ==
    /\ is_on' = StoreState(e, FALSE)
    /\ brightness' = StoreBrightness(e, NoArg)
    /\ call' = [light |-> e, op |-> "turn_off", arg |-> NoArg]
    /\ brightness_value' = NoArg
    /\ msg' = Format(TurnOffFormat, <<e, DeviceName(e)>>)
    /\ Put(c, limit)

-----------------------------------------------------------------------------
(* _startSending *)

\* while not LWLink.the_queue.empty():
QueueCheck(t) ==
    /\ worker[t].pc = "check"
    /\ worker' = [worker EXCEPT ![t].pc =
                     IF the_queue = <<>> THEN "exiting" ELSE "get"]
    /\ UNCHANGED <<the_queue, thread, created, enqueued, cpc, seen, rx_port,
                   wire, outcome>>
    /\ UNCHANGED <<hvars, lvars>>

\* The frame at the entry of _send_reliable_message(msg).
EnterCall(m) ==
    [NoCall EXCEPT !.msg = m, !.max_retries = MaxRetries]

\* LWLink.the_queue.get_nowait(), which raises queue.Empty on an empty queue,
\* and the entry of _send_reliable_message.
Get(t) ==
    /\ worker[t].pc = "get"
    /\ IF the_queue = <<>>
         THEN /\ worker' = [worker EXCEPT ![t].pc = "raised", ![t].how = "Empty"]
              /\ the_queue' = the_queue
         ELSE /\ worker' = [worker EXCEPT
                               ![t] = [pc |-> "socket"] @@ EnterCall(Head(the_queue))]
              /\ the_queue' = Tail(the_queue)
    /\ UNCHANGED <<thread, created, enqueued, cpc, seen, rx_port, wire, outcome>>
    /\ UNCHANGED <<hvars, lvars>>

\* The call has returned to the loop of _startSending; its frame is gone.
Resume(t) ==
    /\ worker[t].pc = "returned"
    /\ worker' = [worker EXCEPT ![t] = [pc |-> "check"] @@ NoCall]
    /\ UNCHANGED <<the_queue, thread, created, enqueued, cpc, seen, rx_port,
                   wire, outcome>>
    /\ UNCHANGED <<hvars, lvars>>

\* The thread's run() ends: _startSending returned or an exception left it.
Terminate(t) ==
    /\ worker[t].pc \in {"exiting", "raised"}
    /\ worker' = [worker EXCEPT ![t] = [pc |-> "dead"] @@ NoCall]
    /\ UNCHANGED <<the_queue, thread, created, enqueued, cpc, seen, rx_port,
                   wire, outcome>>
    /\ UNCHANGED <<hvars, lvars>>

-----------------------------------------------------------------------------
(* _send_reliable_message *)

\* The sockets stay open when the call is left.
ReleaseLeak(w) == w

\* The two with statements: __exit__ closes both sockets on the way out,
\* which frees RX_PORT if this thread's read_sock was bound to it.
Release(w) ==
    [w EXCEPT !.write_sock = FALSE, !.read_sock = FALSE]

ReleasePort(t) == IF rx_port = t THEN 0 ELSE rx_port

\* return result, from the frame w
Return(t, w, how) ==
    /\ worker' = [worker EXCEPT ![t] =
                     [Release(w) EXCEPT !.pc = "returned", !.how = how]]
    /\ rx_port' = ReleasePort(t)
    /\ outcome' = [outcome EXCEPT ![w.msg] = IF w.result THEN "ack" ELSE "nack"]

\* An exception other than socket.timeout leaves the try statement, the
\* function and _startSending.
Raise(t, w, exc) ==
    /\ worker' = [worker EXCEPT ![t] =
                     [Release(w) EXCEPT !.pc = "raised", !.how = exc]]
    /\ rx_port' = ReleasePort(t)
    /\ outcome' = [outcome EXCEPT ![w.msg] = "raised"]

\* socket.socket(...) as write_sock, socket.socket(...) as read_sock
OpenSockets(t) ==
    /\ worker[t].pc = "socket"
    /\ worker' = [worker EXCEPT ![t].pc = "bind",
                                ![t].write_sock = TRUE, ![t].read_sock = TRUE]
    /\ UNCHANGED <<the_queue, thread, created, enqueued, cpc, seen, rx_port,
                   wire, outcome>>
    /\ UNCHANGED <<hvars, lvars>>

\* read_sock.bind(('0.0.0.0', RX_PORT)): OSError when the port is held by
\* another socket of this process or (busy) by another process.
Bind(t, busy) ==
    /\ worker[t].pc = "bind"
    /\ IF rx_port # 0 \/ busy
         THEN Raise(t, worker[t], "OSError")
         ELSE /\ rx_port' = t
              /\ worker' = [worker EXCEPT ![t].pc = "loop"]
              /\ outcome' = outcome
    /\ UNCHANGED <<the_queue, thread, created, enqueued, cpc, seen, wire>>
    /\ UNCHANGED <<hvars, lvars>>

\* The hub sees a datagram of command m.
Seen(m) == IF wire # <<>> /\ wire[Len(wire)] = m THEN wire ELSE Append(wire, m)

\* while max_retries: max_retries -= 1; write_sock.sendto(...); result = False
\* (fails: sendto raises OSError)
Send(t, fails) ==
    /\ worker[t].pc = "loop"
    /\ IF worker[t].max_retries = 0
         THEN /\ Return(t, worker[t], "exhausted")
              /\ UNCHANGED <<wire, dest>>
         ELSE IF fails
         THEN /\ Raise(t, worker[t], "OSError")
              /\ UNCHANGED <<wire, dest>>
         ELSE /\ worker' = [worker EXCEPT
                               ![t].max_retries = @ - 1,
                               ![t].sends = @ + 1,
                               ![t].result = FALSE,
                               ![t].windows = 1,
                               ![t].pc = "recv"]
              /\ wire' = Seen(worker[t].msg)
              /\ dest' = [dest EXCEPT ![worker[t].msg] = link_ip]
              /\ UNCHANGED <<rx_port, outcome>>
    /\ UNCHANGED <<the_queue, thread, created, enqueued, cpc, seen, link_ip,
                   enq_ip, lvars>>

\* socket.timeout is taken for a failed attempt: back off and send again.
RecvTargetRetry(r) ==
    CASE r = "OK"      -> "returned"
      [] r = "ERR"     -> "sleep"
      [] r = "OTHER"   -> "recv"
      [] r = "TIMEOUT" -> "sleep"
      [] r = "NOCOMMA" -> "raised"

\* socket.timeout is not caught.
RecvTargetUncaught(r) ==
    CASE r = "OK"      -> "returned"
      [] r = "ERR"     -> "sleep"
      [] r = "OTHER"   -> "recv"
      [] r = "TIMEOUT" -> "raised"
      [] r = "NOCOMMA" -> "raised"

\* Where one recvfrom leaves the call: "returned" (return result), "sleep"
\* (break, then time.sleep), "recv" (the inner loop goes round), "raised".
RecvTarget(r) ==
    CASE r = "OK"      -> "returned"
      [] r = "ERR"     -> "sleep"
      [] r = "OTHER"   -> "recv"
      [] r = "TIMEOUT" -> "returned"
      [] r = "NOCOMMA" -> "raised"

\* How the call ends when recvfrom ends it.
Cause(r) ==
    CASE r = "OK"      -> "ok"
      [] r = "TIMEOUT" -> "timeout"
      [] r = "NOCOMMA" -> "IndexError"
      [] OTHER         -> "none"

\* Every datagram received counts as an acknowledgement.
ReceivedAny(w, r) ==
    [w EXCEPT !.last = r,
              !.result = IF r # "TIMEOUT" THEN TRUE ELSE @,
              !.errs = IF r = "ERR" THEN @ + 1 ELSE @,
              !.others = IF r # "OTHER" THEN @
                         ELSE IF @ < MaxOther THEN @ + 1 ELSE 1,
              !.windows = IF r = "OTHER" THEN 2 ELSE @]

\* The frame after recvfrom ended in r and the response was examined.
\* windows: the recvfrom calls, each with its own SOCKET_TIMEOUT, begun
\* since the last sendto, counted 1, 2 (2: two or more); after a datagram
\* that is neither OK nor ERR the inner loop calls recvfrom again.
Received(w, r) ==
    [w EXCEPT !.last = r,
              !.result = IF r = "OK" THEN TRUE ELSE @,
              !.errs = IF r = "ERR" THEN @ + 1 ELSE @,
              !.others = IF r # "OTHER" THEN @
                         ELSE IF @ < MaxOther THEN @ + 1 ELSE 1,
              !.windows = IF r = "OTHER" THEN 2 ELSE @]

\* response, dummy = read_sock.recvfrom(1024) and the tests on the response
Recv(t, r) ==
    /\ worker[t].pc = "recv"
    /\ LET w == Received(worker[t], r) IN
       CASE RecvTarget(r) = "returned" -> Return(t, w, Cause(r))
         [] RecvTarget(r) = "raised"   -> Raise(t, w, Cause(r))
         [] OTHER ->
              /\ worker' = [worker EXCEPT ![t] = [w EXCEPT !.pc = RecvTarget(r)]]
              /\ UNCHANGED <<rx_port, outcome>>
    /\ UNCHANGED <<the_queue, thread, created, enqueued, cpc, seen, wire>>
    /\ UNCHANGED <<hvars, lvars>>

\* time.sleep(0.25)
Sleep(t) ==
    /\ worker[t].pc = "sleep"
    /\ worker' = [worker EXCEPT ![t].pc = "loop", ![t].sleeps = @ + 1]
    /\ UNCHANGED <<the_queue, thread, created, enqueued, cpc, seen, rx_port,
                   wire, outcome>>
    /\ UNCHANGED <<hvars, lvars>>

-----------------------------------------------------------------------------
(* Specifications *)

CallerStep(c, limit) ==
    Enqueue(c, limit) \/ CheckNone(c) \/ CheckAlive(c) \/ Create(c) \/ Start(c)

WorkerStep(t, rs, fs) ==
    \/ QueueCheck(t)
    \/ Get(t)
    \/ OpenSockets(t)
    \/ \E busy \in fs : Bind(t, busy)
    \/ \E fails \in fs : Send(t, fails)
    \/ \E r \in rs : Recv(t, r)
    \/ Sleep(t)
    \/ Resume(t)
    \/ Terminate(t)

\* Any number of callers, any behaviour of the hub and of the sockets.
Next ==
    \/ \E c \in Callers : CallerStep(c, MaxCmdsRace)
    \/ \E t \in Threads : WorkerStep(t, Replies, BOOLEAN)

Spec == Init /\ [][Next]_vars

\* One caller: the calls of send_message follow one another.
NextSeq ==
    \/ CallerStep(1, MaxCmds)
    \/ \E t \in Threads : WorkerStep(t, Replies, BOOLEAN)

SpecSeq == Init /\ [][NextSeq]_vars

\* One caller, a hub that answers OK or ERR or not at all, no socket errors.
NextPlain ==
    \/ CallerStep(1, MaxCmds)
    \/ \E t \in Threads : WorkerStep(t, PlainReplies, {FALSE})

SpecPlain == Init /\ [][NextPlain]_vars

\* One caller; every thread that can take a step eventually takes one.
FairSeq ==
    /\ SpecSeq
    /\ WF_vars(CheckNone(1) \/ CheckAlive(1) \/ Create(1) \/ Start(1))
    /\ \A t \in Threads : WF_vars(WorkerStep(t, Replies, BOOLEAN))

\* Number of commands enqueued while the lights are switched, and while the
\* hub address is set again.
MaxCmdsLight == 2
MaxCmdsLink == 2

\* The event loop calls async_turn_on and async_turn_off of the lights, one
\* call after the other; the hub acknowledges, rejects or stays silent.
NextLight ==
    \/ \E e \in Lights, b \in Levels \cup {NoArg} : TurnOn(1, e, b, MaxCmdsLight)
    \/ \E e \in Lights : TurnOff(1, e, MaxCmdsLight)
    \/ CheckNone(1) \/ CheckAlive(1) \/ Create(1) \/ Start(1)
    \/ \E t \in Threads : WorkerStep(t, PlainReplies, {FALSE})

SpecLight == Init /\ [][NextLight]_vars

\* One call of async_turn_on with a brightness, any brightness in 0..255.
NextBrightness ==
    \E e \in Lights, b \in 0..MaxBrightness : TurnOn(1, e, b, 1)

SpecBrightness == Init /\ [][NextBrightness]_vars

\* One caller, and platform entries set up while commands are under way,
\* each constructing an LWLink with its host.
NextLink ==
    \/ CallerStep(1, MaxCmdsLink)
    \/ \E h \in Hosts : Construct(h)
    \/ \E t \in Threads : WorkerStep(t, PlainReplies, {FALSE})

SpecLink == Init /\ [][NextLink]_vars

-----------------------------------------------------------------------------
(* Properties *)

\* A thread inside _send_reliable_message, or one that left it this step.
InCall(t) == worker[t].msg # 0

\* A drain thread that is alive and will test the queue again.
Active(t) ==
    worker[t].pc \in {"check", "get", "socket", "bind", "loop", "recv",
                      "sleep", "returned"}

\* No call of send_message is under way.
CallersIdle == \A c \in Callers : cpc[c] = "idle"

\* C1: once every send_message call has returned, the queue is never
\* non-empty while no drain thread is alive and going to test the queue
\* again.
C1_NoCommandStranded ==
    (CallersIdle /\ the_queue # <<>>) => \E t \in Threads : Active(t)

\* C2: commands enqueued one after another reach the hub in enqueue order,
\* each with all its datagrams before the next command's first, and each of
\* them does reach the hub: when the callers and the drain threads are done,
\* the hub has seen commands 1..enqueued, in that order, none twice.
C2_FifoDelivery ==
    /\ \A i, j \in DOMAIN wire : i < j => wire[i] < wire[j]
    /\ (CallersIdle /\ \A t \in Threads : ~isAlive(t))
          => wire = [i \in 1..enqueued |-> i]

\* C3: at most one drain thread is alive at any time, also when several
\* threads are inside send_message at once, so that at most one call holds
\* a socket bound to RX_PORT.
C3_SingleWorker ==
    /\ Cardinality({t \in Threads : isAlive(t)}) <= 1
    /\ \A t \in Threads : worker[t].pc \in {"loop", "recv", "sleep"} => rx_port = t

\* The call has received no datagram at all.
NoReply(t) ==
    /\ InCall(t)
    /\ worker[t].last \in {"none", "TIMEOUT"}
    /\ worker[t].errs = 0
    /\ worker[t].others = 0

C5_AckAfterErrs ==
    \A t \in Threads :
        (InCall(t) /\ worker[t].others = 0) =>
            /\ (worker[t].pc = "returned" /\ worker[t].last = "OK") =>
                  /\ worker[t].result
                  /\ worker[t].errs < 15
                  /\ worker[t].sends = worker[t].errs + 1
                  /\ worker[t].sleeps = worker[t].errs
                  /\ outcome[worker[t].msg] = "ack"
            /\ (worker[t].pc = "loop" /\ worker[t].errs < 15) =>
                  worker[t].max_retries > 0

C5_Witness ==
    \E t \in Threads :
        /\ worker[t].pc = "returned"
        /\ worker[t].last = "OK"
        /\ worker[t].others = 0
        /\ worker[t].errs = 14
        /\ worker[t].sends = 15
        /\ worker[t].result

\* C6: a call that has returned has sent the datagram at least once and at
\* most 15 times; no call ever sends more than 15 times.
C6_AttemptBound ==
    \A t \in Threads :
        /\ worker[t].sends <= 15
        /\ worker[t].pc = "returned" => worker[t].sends >= 1

C6_Witness ==
    \E t \in Threads :
        /\ worker[t].pc = "returned"
        /\ worker[t].how = "exhausted"
        /\ worker[t].sends = 15
        /\ worker[t].others > 0

\* C7: no failure inside _send_reliable_message leaves it as an exception
\* (which would end the drain thread with commands still to send).
C7_FailureNeverRaised ==
    \A t \in Threads : ~(InCall(t) /\ worker[t].pc = "raised")

\* C8: a socket.timeout before any reply was received ends the call at
\* once: it returns False after exactly 1 send and no sleep.
C8_TimeoutAborts ==
    \A t \in Threads :
        (worker[t].last = "TIMEOUT" /\ worker[t].errs = 0 /\ worker[t].others = 0) =>
            /\ worker[t].pc = "returned"
            /\ worker[t].sends = 1
            /\ worker[t].sleeps = 0
            /\ worker[t].max_retries = 14
            /\ ~worker[t].result

C8_Witness ==
    \E t \in Threads :
        /\ worker[t].how = "timeout"
        /\ worker[t].errs = 0
        /\ worker[t].others = 0
        /\ outcome[worker[t].msg] = "nack"

\* C9: every call of _send_reliable_message that has begun eventually ends
\* (counting even a raised exception as an end), whatever the hub sends.
C9_EveryCallEnds ==
    \A m \in Cmds :
        (\E t \in Threads : worker[t].msg = m) ~> (outcome[m] # "pending")

\* C10: a thread that is not between the creation of its sockets and the
\* exit of the with statements has both sockets closed and does not hold
\* RX_PORT; so a thread about to bind never finds the port held by itself.
C10_SocketsReleased ==
    \A t \in Threads :
        worker[t].pc \notin {"bind", "loop", "recv", "sleep"} =>
            /\ ~worker[t].write_sock
            /\ ~worker[t].read_sock
            /\ rx_port # t

C10_Witness ==
    \E t \in Threads :
        /\ worker[t].pc = "raised"
        /\ worker[t].how = "IndexError"
        /\ worker[t].sends > 1
        /\ ~worker[t].read_sock
        /\ rx_port = 0

\* C14: a datagram that is neither OK nor ERR does not start a new timeout
\* window (one window per attempt), and when the window of such an attempt
\* runs out the attempt counts as failed and the retry step follows (the
\* call does not return while it has retries left).
C14_UnrelatedReplyKeepsWindow ==
    \A t \in Threads :
        /\ worker[t].pc = "recv" => worker[t].windows <= 1
        /\ (worker[t].last = "TIMEOUT" /\ worker[t].windows > 1) =>
              (worker[t].pc # "returned" \/ worker[t].max_retries = 0)

\* C15: a call that has returned slept fewer times than it sent: there is no
\* backoff sleep after the last attempt.
C15_NoBackoffAfterLast ==
    \A t \in Threads :
        worker[t].pc = "returned" => worker[t].sleeps <= worker[t].sends - 1

\* C17: no command is handed to _send_reliable_message twice (no two frames
\* hold the same command, and a command entering a call has had no call
\* before), and get_nowait is never called on an empty queue.
C17_AtMostOnceHandOff ==
    /\ \A t \in Threads : worker[t].how # "Empty"
    /\ \A t \in Threads :
          worker[t].pc = "socket" => outcome[worker[t].msg] = "pending"
    /\ \A t, u \in Threads :
          (t # u /\ worker[t].msg # 0) => worker[t].msg # worker[u].msg

\* C18: a call returns True exactly when the last thing its socket received
\* is an OK datagram, which came after its last send; while the call waits
\* for a reply, sleeps or is about to send, result is False, so a call that
\* ends by socket.timeout or with its retries exhausted returns False.
C18_SuccessIsFreshOK ==
    \A t \in Threads :
        InCall(t) =>
            /\ worker[t].pc \in {"recv", "sleep", "loop"} => ~worker[t].result
            /\ worker[t].pc = "returned" =>
                  /\ worker[t].result <=> worker[t].last = "OK"
                  /\ outcome[worker[t].msg] = "ack" <=> worker[t].last = "OK"
                  /\ worker[t].how \in {"timeout", "exhausted"} => ~worker[t].result

C18_Witness ==
    \E t \in Threads :
        /\ worker[t].pc = "returned"
        /\ worker[t].how = "exhausted"
        /\ worker[t].last = "ERR"
        /\ worker[t].errs = 15
        /\ ~worker[t].result

\* C16: every datagram of a command goes to the hub host that was configured
\* when the command was enqueued, whatever LWLink objects are constructed
\* later.
C16_EndpointFixed ==
    \A m \in Cmds : dest[m] # "" => dest[m] = enq_ip[m]

\* C12: for every brightness b in 0..255 given to async_turn_on, the level
\* calculate_brightness(b) is an integer in 0..32 and the integer nearest to
\* b*32/255; 0 gives 0, 128 gives 16 and 255 gives 32.
C12_BrightnessScaling ==
    (call.op = "turn_on" /\ call.arg # NoArg) =>
        LET b == call.arg
            v == brightness_value
            diff == 255 * v - 32 * b
        IN  /\ b \in 0..255
            /\ v \in 0..32
            /\ 2 * diff <= 255 /\ 2 * (0 - diff) <= 255
            /\ b = 0 => v = 0
            /\ b = 128 => v = 16
            /\ b = 255 => v = 32

\* C12 witness: async_turn_on was called with brightness 128 and scaled it
\* to 16.
C12_Witness ==
    call.op = "turn_on" /\ call.arg = 128 /\ brightness_value = 16

\* C13: the command text an entity hands to send_message starts with the
\* token '321,' followed by '!' and the device id; a turn-on without
\* brightness is exactly 321,!{id}FdP32|Turn On|{name}, a turn-off exactly
\* 321,!{id}F0|Turn Off|{name}, a turn-on with brightness b has function FdP
\* followed by the scaled level of b; the text is a function of the device
\* id, the name and the brightness alone.
C13_CommandEncoding ==
    call.op # "none" =>
        LET id == call.light
            name == DeviceName(id)
            b == call.arg
            level == IF b = 0 THEN "0"
                     ELSE IF b = 128 THEN "16"
                     ELSE IF b = 255 THEN "32"
                     ELSE ToString(brightness_value)
        IN  /\ Len(msg) >= 3
            /\ msg[1] = "321," /\ msg[2] = "!" /\ msg[3] = id
            /\ (call.op = "turn_on" /\ b = NoArg) =>
                   msg = <<"321,", "!", id, "FdP", "32", "|Turn On|", name>>
            /\ call.op = "turn_off" =>
                   msg = <<"321,", "!", id, "F0", "|Turn Off|", name>>
            /\ (call.op = "turn_on" /\ b # NoArg) =>
                   msg = <<"321,", "!", id, "FdP", level, "|Lights ", level,
                           "|", name>>

\* C13 witness: a light was turned on, then dimmed to 128, then turned off,
\* and the turn-off text was handed to the queue.
C13_Witness ==
    /\ call.op = "turn_off"
    /\ brightness[call.light] = 128
    /\ enqueued >= 2
    /\ msg = <<"321,", "!", "R1D1", "F0", "|Turn Off|", "Kitchen">>

\* C11: async_turn_on sets is_on of its light to True and async_turn_off
\* sets it to False in the call itself, whatever becomes of the command; the
\* is_on of the light last switched equals that intent in every later
\* state; and no step of the transport (thread start, send, reply, timeout,
\* backoff, return) changes the is_on or the brightness of any light.
C11_OptimisticState ==
    /\ [](call.op = "turn_on" => is_on[call.light] = "True")
    /\ [](call.op = "turn_off" => is_on[call.light] = "False")
    /\ [][/\ call'.op = "turn_on" => is_on'[call'.light] = "True"
          /\ call'.op = "turn_off" => is_on'[call'.light] = "False"
          /\ enqueued' = enqueued =>
                (is_on' = is_on /\ brightness' = brightness /\ call' = call)
          /\ \A e \in Lights :
                is_on'[e] # is_on[e] => (enqueued' # enqueued /\ call'.light = e)
         ]_vars

\* C11 witness: a light was turned on, its command ended without an
\* acknowledgement after all retries, and the light still reads on at the
\* brightness asked for.
C11_Witness ==
    /\ call.op = "turn_on"
    /\ call.arg = 128
    /\ is_on[call.light] = "True"
    /\ brightness[call.light] = 128
    /\ outcome[enqueued] = "nack"
    /\ \E t \in Threads : worker[t].pc = "returned" /\ worker[t].how = "exhausted"

\* C19: the stored brightness of a light starts at 255; async_turn_on with
\* a brightness sets it to exactly that value; async_turn_off and
\* async_turn_on without a brightness leave it as it was, the latter
\* commanding level 32; a call on one light changes neither is_on nor
\* brightness of another light.
C19_BrightnessFrame ==
    /\ [](enqueued = 0 => \A e \in Lights : brightness[e] = 255)
    /\ []((call.op = "turn_on" /\ call.arg = NoArg) =>
             (Len(msg) >= 5 /\ msg[4] = "FdP" /\ msg[5] = "32"))
    /\ [][enqueued' # enqueued =>
            /\ brightness'[call'.light] =
                  IF call'.op = "turn_on" /\ call'.arg # NoArg
                    THEN call'.arg
                    ELSE brightness[call'.light]
            /\ \A f \in Lights \ {call'.light} :
                  is_on'[f] = is_on[f] /\ brightness'[f] = brightness[f]
         ]_vars

\* C19 witness: one light was dimmed to 128 and then turned off, keeping
\* 128, while the other light was never touched.
C19_Witness ==
    /\ call.op = "turn_off"
    /\ call.light = "R1D1"
    /\ brightness["R1D1"] = 128
    /\ is_on["R1D1"] = "False"
    /\ brightness["R1D2"] = 255
    /\ is_on["R1D2"] = "None"
    /\ enqueued = 2

=============================================================================
